---- MODULE Spec2Model ----
(***************************************************************************)
(* Reconciliation core of the event check-in manager: the staff check-in   *)
(* surface (CheckInView.jsx) and the layout editor (LayoutBuilder.jsx),    *)
(* each merging pulled snapshots and pushed notifications of one server    *)
(* of record into its client-side model.                                   *)
(*                                                                         *)
(* JS values are represented uniformly: an undefined query cache is a      *)
(* record with defined = FALSE, null ids are the string "null", a null     *)
(* timestamp is 0, an optional object is a sequence of length 0 or 1.      *)
(***************************************************************************)
EXTENDS Integers, Sequences, FiniteSets, TLC

\* ---------------------------------------------------------------- bounds
\* commits by peers while the check-in surface is observed
MaxCommits == 2
\* commits by peers while an editor is observed
MaxPeerCommits == 1
\* edit gestures of an editor working alone, or racing with the peers' commits
MaxEdits == 2
\* drag gestures of an editor whose suppression is observed
MaxDrags == 1
\* edit gestures of each editor when two are open
MaxEditsEach == 1

\* ------------------------------------------------------- program constants
GRID_SIZE == 20
AutosaveDelay == 1000

Null == "null"

Pos(px, py) == [x |-> px, y |-> py]

Seat(sid, p, gid) ==
  [id |-> sid, position |-> p, guest_id |-> gid,
   status |-> IF gid = Null THEN "unassigned" ELSE "assigned"]

Guest(gid, name, tid, sid, cin, cinAt, coutAt) ==
  [id |-> gid, full_name |-> name, table_id |-> tid, seat_id |-> sid,
   checked_in |-> cin, checked_in_at |-> cinAt, checked_out_at |-> coutAt]

GuestIds == {"g1", "g2"}

\* ------------------------------------------------------- sequence helpers
\* Array.prototype.map
Map(s, F(_)) == [i \in 1..Len(s) |-> F(s[i])]

\* Array.prototype.some
Some(s, P(_)) == \E i \in 1..Len(s) : P(s[i])

\* Array.prototype.filter
Filter(s, P(_)) == SelectSeq(s, P)

\* object spread { ...g, ...p } for records over the same field universe
Spread(g, p) ==
  [f \in (DOMAIN g) \cup (DOMAIN p) |-> IF f \in DOMAIN p THEN p[f] ELSE g[f]]

\* ------------------------------------------------------------ query caches
Undefined == [defined |-> FALSE, v |-> <<>>]
Data(val) == [defined |-> TRUE, v |-> val]

\* ------------------------------------------------------------------ state
VARIABLES
  srvTables,     \* server of record: tables.json, the list of tables
  srvGuests,     \* server of record: guests.json, the list of guests
  commits,       \* number of commits the server has applied (its clock)
  surfaces,      \* the presentation surfaces that are mounted
  budget,        \* how many peer commits and editor gestures the run explores
  sock,          \* the shared socket: connection, room membership, the handler
                 \* sets each surface has registered, each surface's handlersRef
  ciDlg,         \* check-in surface: selectedGuest, the detail dialog, the
                 \* check-in / check-out mutation in flight, the commands issued
  edDelete,      \* editor: deleteTableMutation, the request in flight
  svc,           \* socket service: this.socket and the connections io() created
  notifs,        \* notifications emitted to the check-in surface's room
  ciGuests,      \* check-in surface: cache of query ['guests', eventId, search]
  ciLayout,      \* check-in surface: cache of query ['layout', eventId]
  ciGuestsPull,  \* check-in surface: fetch state of the guests query
  ciLayoutPull,  \* check-in surface: fetch state of the layout query
  ciLast,        \* the notification the last step applied, whether the step
                 \* before it applied the same one, and the seats that held
                 \* its guest in the layout cache before it was applied
  edTables,      \* editor: useState tables, the local table list
  edLayoutData,  \* editor: cache of query ['layout', eventId]
  edPull,        \* editor: fetch state of the layout query
  edDragging,    \* editor: isDraggingRef.current
  edGesture,     \* editor: the Konva drag in progress
  edSelected,    \* editor: selectedTableId
  edTimer,       \* editor: saveTimeoutRef and the payload its callback closes over
  edSaves,       \* editor: commitLayout requests sent and not yet handled
  edAcks,        \* editor: commitLayout responses on their way back
  edInbox,       \* editor: notifications emitted to it and not yet delivered
  edits,         \* editor: number of edit gestures made
  edHist         \* editor: what has been committed locally and not yet flushed

srvVars == <<srvTables, srvGuests, commits>>
ciVars == <<notifs, ciGuests, ciLayout, ciGuestsPull, ciLayoutPull, ciLast>>
edLocal == <<edTables, edLayoutData, edPull, edDragging, edGesture, edSelected,
             edTimer, edSaves, edAcks, edits, edHist>>
edVars == <<edLocal, edInbox>>
\* what the run is given and the parts of the client that the steps of the
\* server, of the query caches and of the editor gestures leave alone
env == <<budget, sock, ciDlg, edDelete, svc>>
vars == <<srvVars, surfaces, env, ciVars, edVars>>

Editors == {"e1", "e2"}

\* --------------------------------------------------------- initial layout
InitTables ==
  << [id |-> "A", position |-> Pos(100, 100), rotation |-> 0,
      seats |-> << Seat("s1", Pos(0, -70), "g1"), Seat("s2", Pos(0, 70), Null) >>],
     [id |-> "B", position |-> Pos(300, 100), rotation |-> 0,
      seats |-> << Seat("s3", Pos(0, -70), Null) >>] >>

InitGuests == << Guest("g1", "n0", "A", "s1", FALSE, 0, 0) >>

\* (table id, seat id) of every seat of a table list
SeatKeys(tbls) ==
  UNION { { <<tbls[i].id, tbls[i].seats[j].id>> : j \in 1..Len(tbls[i].seats) } :
          i \in 1..Len(tbls) }

\* guest_id of seat s of table t, "null" when the table list has no such seat
SeatGuest(tbls, t, s) ==
  IF <<t, s>> \in SeatKeys(tbls)
  THEN LET i == CHOOSE i \in 1..Len(tbls) : tbls[i].id = t
           j == CHOOSE j \in 1..Len(tbls[i].seats) : tbls[i].seats[j].id = s
       IN tbls[i].seats[j].guest_id
  ELSE Null

\* the seats of a table list that reference guest g
SeatsHolding(tbls, g) == { k \in SeatKeys(tbls) : SeatGuest(tbls, k[1], k[2]) = g }

\* ------------------------------------------------------- fetch state
Idle == [st |-> "idle", data |-> <<>>]
Requested == [st |-> "req", data |-> <<>>]
Answered(d) == [st |-> "resp", data |-> d]

\* ------------------------------------------------------- notifications
Notif(k, g, t, s, obj) ==
  [kind |-> k, guest_id |-> g, table_id |-> t, seat_id |-> s, guest |-> obj]

\* the notification kinds the check-in surface registers a handler for
\* (CheckInView.jsx 284-445)
CIHandled == {"guest_checked_in", "guest_checked_out", "seat_unassigned",
              "seat_assigned", "guest_updated", "layout_changed"}

\* the notification kinds the editor registers a handler for
\* (LayoutBuilder.jsx 356-383)
EdHandled == {"layout_changed", "seat_assigned", "seat_unassigned",
              "guest_updated", "guest_deleted"}

NoLast == [n |-> <<>>, rep |-> FALSE, from |-> {}, seen |-> {}, was |-> <<>>]
Applied(n) ==
  [n |-> <<n>>, rep |-> ciLast.n = <<n>>,
   from |-> IF ciLayout.defined THEN SeatsHolding(ciLayout.v, n.guest_id) ELSE {},
   seen |-> IF budget.track THEN ciLast.seen \cup {n} ELSE {},
   was |-> IF budget.track /\ ciGuests.defined
           THEN LET hit == { i \in 1..Len(ciGuests.v) : ciGuests.v[i].id = n.guest_id }
                IN IF hit = {} THEN <<>> ELSE <<ciGuests.v[CHOOSE i \in hit : TRUE].checked_in>>
           ELSE <<>>]
\* the last step applied no notification
Rest == [NoLast EXCEPT !.seen = ciLast.seen]

\* ================================================================= server
\* The server of record is not part of the sources; its commits follow the
\* specification's data model and the documented REST/Socket.IO contract.

GuestIndex(gs, g) == CHOOSE i \in 1..Len(gs) : gs[i].id = g
HasGuest(gs, g) == Some(gs, LAMBDA r : r.id = g)

\* clear every seat that references guest g
Vacate(tbls, g) ==
  Map(tbls, LAMBDA t :
    [t EXCEPT !.seats = Map(t.seats, LAMBDA s :
       IF s.guest_id = g THEN [s EXCEPT !.guest_id = Null, !.status = "unassigned"]
       ELSE s)])

\* put guest g on seat sid of table tid
Occupy(tbls, tid, sid, g) ==
  Map(tbls, LAMBDA t :
    IF t.id # tid THEN t
    ELSE [t EXCEPT !.seats = Map(t.seats, LAMBDA s :
       IF s.id = sid THEN [s EXCEPT !.guest_id = g, !.status = "assigned"] ELSE s)])

\* the server emits n to the room of the event: to every mounted surface
Emit(n) ==
  /\ notifs' = IF sock.room /\ "ci" \in surfaces /\ n.kind \in CIHandled
                THEN notifs \cup {n} ELSE notifs
  /\ edInbox' = [e \in Editors |->
                  IF sock.room /\ e \in surfaces /\ n.kind \in EdHandled
                  THEN edInbox[e] \cup {n.kind} ELSE edInbox[e]]

\* POST /layout/assign-seat: seat the guest, vacating the seat held before
SrvAssign(g, tid, sid, withGuest) ==
  /\ commits < budget.commits
  /\ HasGuest(srvGuests, g)
  /\ <<tid, sid>> \in SeatKeys(srvTables)
  /\ SeatGuest(srvTables, tid, sid) = Null
  /\ LET i == GuestIndex(srvGuests, g)
         r == [srvGuests[i] EXCEPT !.table_id = tid, !.seat_id = sid]
     IN /\ srvGuests' = [srvGuests EXCEPT ![i] = r]
        /\ srvTables' = Occupy(Vacate(srvTables, g), tid, sid, g)
        /\ Emit(Notif("seat_assigned", g, tid, sid, IF withGuest THEN <<r>> ELSE <<>>))
  /\ commits' = commits + 1

\* POST /layout/unassign-seat
SrvUnassign(g) ==
  /\ commits < budget.commits
  /\ HasGuest(srvGuests, g)
  /\ LET i == GuestIndex(srvGuests, g)
         r == srvGuests[i]
     IN /\ r.table_id # Null
        /\ srvGuests' = [srvGuests EXCEPT ![i] = [r EXCEPT !.table_id = Null, !.seat_id = Null]]
        /\ srvTables' = Vacate(srvTables, g)
        /\ Emit(Notif("seat_unassigned", g, r.table_id, r.seat_id, <<>>))
  /\ commits' = commits + 1

\* POST /guests/checkin: checked_in = True, checked_in_at = timestamp; the
\* notification carries the documented fields of the guest
SrvCheckIn(g) ==
  /\ commits < budget.commits
  /\ HasGuest(srvGuests, g)
  /\ LET i == GuestIndex(srvGuests, g)
         r == [srvGuests[i] EXCEPT !.checked_in = TRUE, !.checked_in_at = commits + 1]
     IN /\ ~srvGuests[i].checked_in
        /\ srvGuests' = [srvGuests EXCEPT ![i] = r]
        /\ Emit(Notif("guest_checked_in", g, Null, Null,
                      << [id |-> r.id, full_name |-> r.full_name, checked_in |-> TRUE,
                          checked_in_at |-> r.checked_in_at, table_id |-> r.table_id,
                          seat_id |-> r.seat_id] >>))
  /\ commits' = commits + 1
  /\ UNCHANGED srvTables

\* POST /guests/checkout: checked_in = False, checked_out_at = timestamp; the
\* notification carries the guest's id and checked_in only
SrvCheckOut(g) ==
  /\ commits < budget.commits
  /\ HasGuest(srvGuests, g)
  /\ LET i == GuestIndex(srvGuests, g)
         r == [srvGuests[i] EXCEPT !.checked_in = FALSE, !.checked_out_at = commits + 1]
     IN /\ srvGuests[i].checked_in
        /\ srvGuests' = [srvGuests EXCEPT ![i] = r]
        /\ Emit(Notif("guest_checked_out", g, Null, Null,
                      << [id |-> r.id, checked_in |-> FALSE] >>))
  /\ commits' = commits + 1
  /\ UNCHANGED srvTables

\* PUT /guests/{id}: a display field is edited
SrvUpdateGuest(g) ==
  /\ commits < budget.commits
  /\ HasGuest(srvGuests, g)
  /\ LET i == GuestIndex(srvGuests, g)
         r == [srvGuests[i] EXCEPT !.full_name = "n1"]
     IN /\ srvGuests[i].full_name = "n0"
        /\ srvGuests' = [srvGuests EXCEPT ![i] = r]
        /\ Emit(Notif("guest_updated", g, Null, Null, <<r>>))
  /\ commits' = commits + 1
  /\ UNCHANGED srvTables

\* POST /guests: a guest is created, unseated and not checked in
SrvCreateGuest(g) ==
  /\ commits < budget.commits
  /\ ~HasGuest(srvGuests, g)
  /\ srvGuests' = Append(srvGuests, Guest(g, "n0", Null, Null, FALSE, 0, 0))
  /\ commits' = commits + 1
  /\ UNCHANGED <<srvTables, notifs, edInbox>>

\* DELETE /guests/{id}: the guest is removed and the seat it held is vacated
SrvDeleteGuest(g) ==
  /\ commits < budget.commits
  /\ HasGuest(srvGuests, g)
  /\ srvGuests' = Filter(srvGuests, LAMBDA r : r.id # g)
  /\ srvTables' = Vacate(srvTables, g)
  /\ Emit(Notif("guest_deleted", g, Null, Null, <<>>))
  /\ commits' = commits + 1

\* PUT /layout: the table list of the request replaces the stored one
SrvUpdateLayout(tbls) ==
  /\ srvTables' = tbls
  /\ Emit(Notif("layout_changed", Null, Null, Null, <<>>))
  /\ UNCHANGED <<srvGuests, commits>>

\* ======================================================= check-in surface
\* the guest-event updater that resets the timestamp of the opposite status
GuestsOnGuestEvent_Reset(old, d) ==
  IF ~old.defined THEN old
  ELSE Data(Map(old.v, LAMBDA g :
         IF g.id = d.guest[1].id
         THEN [Spread(g, d.guest[1]) EXCEPT
                 !.checked_in_at = IF d.guest[1].checked_in THEN @ ELSE 0,
                 !.checked_out_at = IF d.guest[1].checked_in THEN 0 ELSE @]
         ELSE g))

\* CheckInView.jsx 288-293, 305-310, 434-439: guests updater of
\* guest_checked_in, guest_checked_out and guest_updated
GuestsOnGuestEvent(old, d) ==
  IF ~old.defined THEN old
  ELSE Data(Map(old.v, LAMBDA g :
         IF g.id = d.guest[1].id THEN Spread(g, d.guest[1]) ELSE g))

\* CheckInView.jsx 319-324: guests updater of seat_unassigned
GuestsOnSeatUnassigned(old, d) ==
  IF ~old.defined THEN old
  ELSE Data(Map(old.v, LAMBDA g :
         IF g.id = d.guest_id THEN [g EXCEPT !.table_id = Null, !.seat_id = Null] ELSE g))

\* CheckInView.jsx 327-344: layout updater of seat_unassigned
LayoutOnSeatUnassigned(old, d) ==
  IF ~old.defined THEN old
  ELSE Data(Map(old.v, LAMBDA t :
         IF t.id # d.table_id THEN t
         ELSE [t EXCEPT !.seats = Map(t.seats, LAMBDA s :
                IF s.id # d.seat_id THEN s
                ELSE [s EXCEPT !.guest_id = Null, !.status = "unassigned"])]))

\* the guests updater of seat_assigned without the test for a guest that is
\* already listed: the guest object is appended every time
GuestsOnSeatAssigned_AlwaysAppend(old, d) ==
  LET seat == [table_id |-> d.table_id, seat_id |-> d.seat_id]
  IN IF ~old.defined THEN Data(d.guest)
     ELSE IF d.guest # <<>>
     THEN Data(Append(old.v, Spread(d.guest[1], seat)))
     ELSE Data(Map(old.v, LAMBDA g :
            IF g.id = d.guest_id THEN Spread(g, seat) ELSE g))

\* CheckInView.jsx 362-382: guests updater of seat_assigned
GuestsOnSeatAssigned(old, d) ==
  LET seat == [table_id |-> d.table_id, seat_id |-> d.seat_id]
  IN IF ~old.defined THEN Data(d.guest)
     ELSE IF d.guest # <<>>
     THEN IF Some(old.v, LAMBDA g : g.id = d.guest_id)
          THEN Data(Map(old.v, LAMBDA g :
                 IF g.id = d.guest_id THEN Spread(Spread(g, d.guest[1]), seat) ELSE g))
          ELSE Data(Append(old.v, Spread(d.guest[1], seat)))
     ELSE Data(Map(old.v, LAMBDA g :
            IF g.id = d.guest_id THEN Spread(g, seat) ELSE g))

\* the layout updater of seat_assigned without the cleanup of the seat the
\* guest held before
LayoutOnSeatAssigned_NoCleanup(old, d) ==
  IF ~old.defined THEN old
  ELSE Data(Map(old.v, LAMBDA t :
         IF t.id = d.table_id
         THEN [t EXCEPT !.seats = Map(t.seats, LAMBDA s :
                IF s.id = d.seat_id
                THEN [s EXCEPT !.guest_id = d.guest_id, !.status = "assigned"]
                ELSE s)]
         ELSE t))

\* the layout updater of seat_assigned that vacates the seat held before but
\* leaves the target seat as it was
LayoutOnSeatAssigned_NoAssign(old, d) ==
  IF ~old.defined THEN old
  ELSE Data(Map(old.v, LAMBDA t :
         [t EXCEPT !.seats = Map(t.seats, LAMBDA s :
            IF s.guest_id # Null /\ s.guest_id = d.guest_id
               /\ ~(t.id = d.table_id /\ s.id = d.seat_id)
            THEN [s EXCEPT !.guest_id = Null, !.status = "unassigned"]
            ELSE s)]))

\* CheckInView.jsx 385-424: layout updater of seat_assigned
LayoutOnSeatAssigned(old, d) ==
  IF ~old.defined THEN old
  ELSE Data(Map(old.v, LAMBDA t :
         IF t.id = d.table_id
         THEN [t EXCEPT !.seats = Map(t.seats, LAMBDA s :
                IF s.id = d.seat_id
                THEN [s EXCEPT !.guest_id = d.guest_id, !.status = "assigned"]
                ELSE IF s.guest_id # Null /\ s.guest_id = d.guest_id /\ s.id # d.seat_id
                THEN [s EXCEPT !.guest_id = Null, !.status = "unassigned"]
                ELSE s)]
         ELSE IF Some(t.seats, LAMBDA s : s.guest_id # Null /\ s.guest_id = d.guest_id)
         THEN [t EXCEPT !.seats = Map(t.seats, LAMBDA s :
                IF s.guest_id # Null /\ s.guest_id = d.guest_id
                THEN [s EXCEPT !.guest_id = Null, !.status = "unassigned"]
                ELSE s)]
         ELSE t))

\* one delivery of notification n by the channel: delivery is at-least-once
\* and unordered, so every notification emitted so far may be delivered at
\* any later moment, any number of times
Delivered(n) ==
  /\ sock.regs["ci"] > 0
  /\ sock.up
  /\ n \in notifs
  /\ UNCHANGED notifs
  /\ ciLast' = Applied(n)

\* CheckInView.jsx 284-299
CIOnGuestCheckedIn(n) ==
  /\ n.kind = "guest_checked_in"
  /\ Delivered(n)
  /\ ciGuests' = GuestsOnGuestEvent(ciGuests, n)
  /\ UNCHANGED <<srvVars, surfaces, env, edVars, ciLayout, ciGuestsPull, ciLayoutPull>>

\* CheckInView.jsx 301-313
CIOnGuestCheckedOut(n) ==
  /\ n.kind = "guest_checked_out"
  /\ Delivered(n)
  /\ ciGuests' = GuestsOnGuestEvent(ciGuests, n)
  /\ UNCHANGED <<srvVars, surfaces, env, edVars, ciLayout, ciGuestsPull, ciLayoutPull>>

\* CheckInView.jsx 315-350
CIOnSeatUnassigned(n) ==
  /\ n.kind = "seat_unassigned"
  /\ Delivered(n)
  /\ ciGuests' = GuestsOnSeatUnassigned(ciGuests, n)
  /\ ciLayout' = LayoutOnSeatUnassigned(ciLayout, n)
  /\ ciGuestsPull' = Requested
  /\ ciLayoutPull' = Requested
  /\ UNCHANGED <<srvVars, surfaces, env, edVars>>

\* CheckInView.jsx 352-430
CIOnSeatAssigned(n) ==
  /\ n.kind = "seat_assigned"
  /\ Delivered(n)
  /\ ciGuests' = GuestsOnSeatAssigned(ciGuests, n)
  /\ ciLayout' = LayoutOnSeatAssigned(ciLayout, n)
  /\ ciGuestsPull' = Requested
  /\ ciLayoutPull' = Requested
  /\ UNCHANGED <<srvVars, surfaces, env, edVars>>

\* CheckInView.jsx 432-441
CIOnGuestUpdated(n) ==
  /\ n.kind = "guest_updated"
  /\ Delivered(n)
  /\ ciGuests' = GuestsOnGuestEvent(ciGuests, n)
  /\ UNCHANGED <<srvVars, surfaces, env, edVars, ciLayout, ciGuestsPull, ciLayoutPull>>

\* CheckInView.jsx 443-445
CIOnLayoutChanged(n) ==
  /\ n.kind = "layout_changed"
  /\ Delivered(n)
  /\ ciLayoutPull' = Requested
  /\ UNCHANGED <<srvVars, surfaces, env, edVars, ciGuests, ciLayout, ciGuestsPull>>

\* CheckInView.jsx 457-469: the page becomes visible again
CIVisibilityChange ==
  /\ "ci" \in surfaces
  /\ ciGuestsPull' = Requested
  /\ ciLayoutPull' = Requested
  /\ ciLast' = Rest
  /\ UNCHANGED <<srvVars, surfaces, env, edVars, notifs, ciGuests, ciLayout>>

\* GET /guests answered by the server with its state at that moment
SrvGetGuestsCI ==
  /\ ciGuestsPull.st = "req"
  /\ ciGuestsPull' = Answered(srvGuests)
  /\ ciLast' = Rest
  /\ UNCHANGED <<srvVars, surfaces, env, edVars, notifs, ciGuests, ciLayout, ciLayoutPull>>

\* GET /layout answered by the server with its state at that moment
SrvGetLayoutCI ==
  /\ ciLayoutPull.st = "req"
  /\ ciLayoutPull' = Answered(srvTables)
  /\ ciLast' = Rest
  /\ UNCHANGED <<srvVars, surfaces, env, edVars, notifs, ciGuests, ciLayout, ciGuestsPull>>

\* CheckInView.jsx 230-237: the guests query resolves
CIGuestsFetched ==
  /\ ciGuestsPull.st = "resp"
  /\ ciGuests' = Data(ciGuestsPull.data)
  /\ ciGuestsPull' = Idle
  /\ ciLast' = Rest
  /\ UNCHANGED <<srvVars, surfaces, env, edVars, notifs, ciLayout, ciLayoutPull>>

\* CheckInView.jsx 221-227: the layout query resolves
CILayoutFetched ==
  /\ ciLayoutPull.st = "resp"
  /\ ciLayout' = Data(ciLayoutPull.data)
  /\ ciLayoutPull' = Idle
  /\ ciLast' = Rest
  /\ UNCHANGED <<srvVars, surfaces, env, edVars, notifs, ciGuests, ciGuestsPull>>

\* ------------------------------------------------- commits made by peers
\* what a commit of another participant leaves alone on the modelled surfaces
PeerFrame ==
  /\ ciLast' = Rest
  /\ UNCHANGED <<surfaces, env, edLocal, ciGuests, ciLayout, ciGuestsPull, ciLayoutPull>>

PeerAssign(g, tid, sid, withGuest) == SrvAssign(g, tid, sid, withGuest) /\ PeerFrame
PeerUnassign(g) == SrvUnassign(g) /\ PeerFrame
PeerCheckIn(g) == SrvCheckIn(g) /\ PeerFrame
PeerCheckOut(g) == SrvCheckOut(g) /\ PeerFrame
PeerUpdateGuest(g) == SrvUpdateGuest(g) /\ PeerFrame
PeerCreateGuest(g) == SrvCreateGuest(g) /\ PeerFrame
PeerDeleteGuest(g) == SrvDeleteGuest(g) /\ PeerFrame

\* ================================================================= editor
\* Math.floor in place of Math.round
SnapAxis_Floor(v) == (v \div GRID_SIZE) * GRID_SIZE

\* LayoutBuilder.jsx 157-158, 556-557: Math.round(v / GRID_SIZE) * GRID_SIZE
SnapAxis(v) == ((2 * v + GRID_SIZE) \div (2 * GRID_SIZE)) * GRID_SIZE
Snap(p) == Pos(SnapAxis(p.x), SnapAxis(p.y))

\* pointer positions at which a table drag may end
DropPoints == { Pos(240, 238) }
\* positions, relative to the table, at which a seat drag may end
SeatDropPoints == { Pos(10, -65) }
\* values of the rotation slider
Rotations == { 90 }

TableIds(tbls) == { tbls[i].id : i \in 1..Len(tbls) }
TableById(tbls, tid) == tbls[CHOOSE i \in 1..Len(tbls) : tbls[i].id = tid]

NoGesture == [kind |-> "none", table |-> Null, seat |-> Null]
NoTimer == [ref |-> 0, pending |-> {}]
NoHist ==
  [moved |-> {}, owed |-> {}, unflushedPos |-> {}, unflushedSeat |-> {},
   unflushedRot |-> {}, dropped |-> FALSE, lastSched |-> <<>>, flushed |-> <<>>,
   flushes |-> 0, overlap |-> FALSE, failed |-> <<>>]

\* the effect without the early return while dragging
SyncFromServer_IgnoreDrag(tables, layoutData, dragging) ==
  IF layoutData.defined THEN layoutData.v ELSE tables

\* LayoutBuilder.jsx 341-350: useEffect([layoutData])
SyncFromServer(tables, layoutData, dragging) ==
  IF dragging THEN tables
  ELSE IF layoutData.defined THEN layoutData.v ELSE tables

\* triggerAutoSave without the clearTimeout of the pending timer
TriggerAutoSave_NoClear(tm, id, updatedTables) ==
  [ref |-> id,
   pending |-> tm.pending \cup { [id |-> id, tables |-> updatedTables, elapsed |-> 0] }]

\* LayoutBuilder.jsx 418-436: triggerAutoSave(updatedTables), timer id fresh
TriggerAutoSave(tm, id, updatedTables) ==
  [ref |-> id,
   pending |-> { t \in tm.pending : t.id # tm.ref }
               \cup { [id |-> id, tables |-> updatedTables, elapsed |-> 0] }]

\* LayoutBuilder.jsx 445-447: the table list with one table moved
MoveTable(prev, tableId, newPosition) ==
  Map(prev, LAMBDA t : IF t.id = tableId THEN [t EXCEPT !.position = newPosition] ELSE t)

\* LayoutBuilder.jsx 455-463: the table list with one seat moved
MoveSeat(prev, tableId, seatId, newPosition) ==
  Map(prev, LAMBDA t :
    IF t.id # tableId THEN t
    ELSE [t EXCEPT !.seats = Map(t.seats, LAMBDA st :
           IF st.id = seatId THEN [st EXCEPT !.position = newPosition] ELSE st)])

\* the rotation applied to every table of the list
RotateTable_All(prev, tableId, value) ==
  Map(prev, LAMBDA t : [t EXCEPT !.rotation = value])

\* LayoutBuilder.jsx 473-475: the table list with one table rotated
RotateTable(prev, tableId, value) ==
  Map(prev, LAMBDA t : IF t.id = tableId THEN [t EXCEPT !.rotation = value] ELSE t)

\* an edit of entity k replaces the earlier recorded edits of k
Record(edits_, k, val) == { x \in edits_ : x[1] # k } \cup { <<k, val>> }

Mounted(e) == e \in surfaces

\* editor o has a move that the server has not applied yet
Busy(o) == edGesture[o].kind # "none" \/ edTimer[o].pending # {} \/ edSaves[o] # {}

\* GET /layout answered by the server with its state at that moment
SrvGetLayoutEd(e) ==
  /\ Mounted(e)
  /\ edPull[e].st = "req"
  /\ edPull' = [edPull EXCEPT ![e] = Answered(srvTables)]
  /\ UNCHANGED <<srvVars, surfaces, env, ciVars, edInbox, edTables, edLayoutData, edDragging,
                 edGesture, edSelected, edTimer, edSaves, edAcks, edits, edHist>>

\* LayoutBuilder.jsx 313-319, 341-350: the layout query resolves; data equal
\* to the cached data keeps its identity, so the effect does not run
EdLayoutFetched(e) ==
  /\ Mounted(e)
  /\ edPull[e].st = "resp"
  /\ LET new == Data(edPull[e].data)
         changed == new # edLayoutData[e]
     IN /\ edLayoutData' = [edLayoutData EXCEPT ![e] = new]
        /\ edTables' = [edTables EXCEPT ![e] =
             IF changed THEN SyncFromServer(@, new, edDragging[e]) ELSE @]
        /\ edHist' = [edHist EXCEPT ![e].dropped =
             @ \/ (changed /\ edGesture[e].kind # "none")]
  /\ edPull' = [edPull EXCEPT ![e] = Idle]
  /\ UNCHANGED <<srvVars, surfaces, env, ciVars, edInbox, edDragging, edGesture, edSelected,
                 edTimer, edSaves, edAcks, edits>>

\* LayoutBuilder.jsx 148-151, 438-440: a table drag starts
EdTableDragStart(e, tid) ==
  /\ Mounted(e)
  /\ edGesture[e].kind = "none"
  /\ edits[e] < budget.edits
  /\ tid \in TableIds(edTables[e])
  /\ edGesture' = [edGesture EXCEPT ![e] = [kind |-> "table", table |-> tid, seat |-> Null]]
  /\ edDragging' = [edDragging EXCEPT ![e] = TRUE]
  /\ edHist' = [edHist EXCEPT ![e].dropped = FALSE]
  /\ UNCHANGED <<srvVars, surfaces, env, ciVars, edInbox, edTables, edLayoutData, edPull,
                 edSelected, edTimer, edSaves, edAcks, edits>>

\* the table drag commits the position of the node as it is
EdTableDragEnd_NoSnap(e, p) ==
  /\ Mounted(e)
  /\ edGesture[e].kind = "table"
  /\ LET tid == edGesture[e].table
         newPos == p
         newTables == MoveTable(edTables[e], tid, newPos)
     IN /\ edDragging' = [edDragging EXCEPT ![e] = FALSE]
        /\ edTables' = [edTables EXCEPT ![e] = newTables]
        /\ edTimer' = [edTimer EXCEPT ![e] = TriggerAutoSave(@, edits[e] + 1, newTables)]
        /\ edHist' = [edHist EXCEPT ![e].moved = Record(@, tid, newPos),
                                    ![e].owed = Record(@, tid, newPos),
                                    ![e].unflushedPos = Record(@, tid, newPos),
                                    ![e].lastSched = <<newTables>>,
                                    ![e].overlap = @ \/ \E o \in Editors \ {e} : Busy(o)]
  /\ edits' = [edits EXCEPT ![e] = @ + 1]
  /\ edGesture' = [edGesture EXCEPT ![e] = NoGesture]
  /\ UNCHANGED <<srvVars, surfaces, env, ciVars, edInbox, edLayoutData, edPull, edSelected,
                 edSaves, edAcks>>

\* LayoutBuilder.jsx 152-165, 442-451: the table drag ends at pointer p
EdTableDragEnd(e, p) ==
  /\ Mounted(e)
  /\ edGesture[e].kind = "table"
  /\ LET tid == edGesture[e].table
         newPos == Snap(p)
         newTables == MoveTable(edTables[e], tid, newPos)
     IN /\ edDragging' = [edDragging EXCEPT ![e] = FALSE]
        /\ edTables' = [edTables EXCEPT ![e] = newTables]
        /\ edTimer' = [edTimer EXCEPT ![e] = TriggerAutoSave(@, edits[e] + 1, newTables)]
        /\ edHist' = [edHist EXCEPT ![e].moved = Record(@, tid, newPos),
                                    ![e].owed = Record(@, tid, newPos),
                                    ![e].unflushedPos = Record(@, tid, newPos),
                                    ![e].lastSched = <<newTables>>,
                                    ![e].overlap = @ \/ \E o \in Editors \ {e} : Busy(o)]
  /\ edits' = [edits EXCEPT ![e] = @ + 1]
  /\ edGesture' = [edGesture EXCEPT ![e] = NoGesture]
  /\ UNCHANGED <<srvVars, surfaces, env, ciVars, edInbox, edLayoutData, edPull, edSelected,
                 edSaves, edAcks>>

\* LayoutBuilder.jsx 235-238, 438-440: a seat drag starts
EdSeatDragStart(e, tid, sid) ==
  /\ Mounted(e)
  /\ edGesture[e].kind = "none"
  /\ edits[e] < budget.edits
  /\ <<tid, sid>> \in SeatKeys(edTables[e])
  /\ edGesture' = [edGesture EXCEPT ![e] = [kind |-> "seat", table |-> tid, seat |-> sid]]
  /\ edDragging' = [edDragging EXCEPT ![e] = TRUE]
  /\ edHist' = [edHist EXCEPT ![e].dropped = FALSE]
  /\ UNCHANGED <<srvVars, surfaces, env, ciVars, edInbox, edTables, edLayoutData, edPull,
                 edSelected, edTimer, edSaves, edAcks, edits>>

\* LayoutBuilder.jsx 239-245, 453-467: the seat drag ends at position p
EdSeatDragEnd(e, p) ==
  /\ Mounted(e)
  /\ edGesture[e].kind = "seat"
  /\ LET tid == edGesture[e].table
         sid == edGesture[e].seat
         newTables == MoveSeat(edTables[e], tid, sid, p)
     IN /\ edTables' = [edTables EXCEPT ![e] = newTables]
        /\ edTimer' = [edTimer EXCEPT ![e] = TriggerAutoSave(@, edits[e] + 1, newTables)]
        /\ edHist' = [edHist EXCEPT ![e].unflushedSeat = Record(@, <<tid, sid>>, p),
                                    ![e].lastSched = <<newTables>>]
  /\ edits' = [edits EXCEPT ![e] = @ + 1]
  /\ edGesture' = [edGesture EXCEPT ![e] = NoGesture]
  /\ UNCHANGED <<srvVars, surfaces, env, ciVars, edInbox, edLayoutData, edPull, edSelected,
                 edDragging, edSaves, edAcks>>

\* LayoutBuilder.jsx 166-167: a table is clicked
EdSelect(e, tid) ==
  /\ Mounted(e)
  /\ edGesture[e].kind = "none"
  /\ edits[e] < budget.edits
  /\ tid \in TableIds(edTables[e])
  /\ edSelected[e] # tid
  /\ edSelected' = [edSelected EXCEPT ![e] = tid]
  /\ UNCHANGED <<srvVars, surfaces, env, ciVars, edInbox, edTables, edLayoutData, edPull,
                 edDragging, edGesture, edTimer, edSaves, edAcks, edits, edHist>>

\* LayoutBuilder.jsx 470-480: handleRotationChange(value)
EdRotate(e, value) ==
  /\ Mounted(e)
  /\ edGesture[e].kind = "none"
  /\ edits[e] < budget.edits
  /\ edSelected[e] # Null
  /\ LET newTables == RotateTable(edTables[e], edSelected[e], value)
     IN /\ edTables' = [edTables EXCEPT ![e] = newTables]
        /\ edTimer' = [edTimer EXCEPT ![e] = TriggerAutoSave(@, edits[e] + 1, newTables)]
        /\ edHist' = [edHist EXCEPT ![e].unflushedRot =
                         IF edSelected[e] \in TableIds(edTables[e])
                         THEN Record(@, edSelected[e], value) ELSE @,
                                    ![e].lastSched = <<newTables>>]
  /\ edits' = [edits EXCEPT ![e] = @ + 1]
  /\ UNCHANGED <<srvVars, surfaces, env, ciVars, edInbox, edLayoutData, edPull, edSelected,
                 edDragging, edGesture, edSaves, edAcks>>

\* time passes: every pending timeout ages by half the autosave delay
Quantum == AutosaveDelay \div 2
Aged(t) == [t EXCEPT !.elapsed = IF @ + Quantum > AutosaveDelay THEN AutosaveDelay ELSE @ + Quantum]
Tick ==
  /\ \E e \in Editors : \E t \in edTimer[e].pending : t.elapsed < AutosaveDelay
  /\ edTimer' = [e \in Editors |-> [edTimer[e] EXCEPT !.pending = { Aged(t) : t \in @ }]]
  /\ UNCHANGED <<srvVars, surfaces, env, ciVars, edInbox, edTables, edLayoutData, edPull,
                 edDragging, edGesture, edSelected, edSaves, edAcks, edits, edHist>>

\* LayoutBuilder.jsx 423-435: the timeout callback runs and sends the table
\* list it closed over; the timer belongs to the window, not to the mounted
\* component, and only triggerAutoSave (419-421) ever clears it
EdFlush(e, t) ==
  /\ t \in edTimer[e].pending
  /\ t.elapsed >= AutosaveDelay
  /\ edTimer' = [edTimer EXCEPT ![e].pending = @ \ {t}]
  /\ edSaves' = [edSaves EXCEPT ![e] = @ \cup { [id |-> t.id, tables |-> t.tables] }]
  /\ edHist' = [edHist EXCEPT ![e].unflushedPos = {}, ![e].unflushedSeat = {},
                              ![e].unflushedRot = {}, ![e].flushed = <<t>>,
                              ![e].flushes = @ + 1]
  /\ UNCHANGED <<srvVars, surfaces, env, ciVars, edInbox, edTables, edLayoutData, edPull,
                 edDragging, edGesture, edSelected, edAcks, edits>>

\* the server handles one commitLayout request of editor e
SrvPutLayout(e, r) ==
  /\ r \in edSaves[e]
  /\ SrvUpdateLayout(r.tables)
  /\ edSaves' = [edSaves EXCEPT ![e] = @ \ {r}]
  /\ edAcks' = [edAcks EXCEPT ![e] = @ + 1]
  /\ edHist' = [edHist EXCEPT ![e].owed =
       { o \in @ : ~(o[1] \in TableIds(r.tables) /\ TableById(r.tables, o[1]).position = o[2]) }]
  /\ UNCHANGED <<surfaces, env, ciGuests, ciLayout, ciGuestsPull, ciLayoutPull, ciLast,
                 edTables, edLayoutData, edPull, edDragging, edGesture, edSelected,
                 edTimer, edits>>

\* LayoutBuilder.jsx 407-413: saveLayoutMutation.onSuccess
EdSaveSuccess(e) ==
  /\ Mounted(e)
  /\ edAcks[e] > 0
  /\ edAcks' = [edAcks EXCEPT ![e] = @ - 1]
  /\ edPull' = [edPull EXCEPT ![e] = Requested]
  /\ UNCHANGED <<srvVars, surfaces, env, ciVars, edInbox, edTables, edLayoutData, edDragging,
                 edGesture, edSelected, edTimer, edSaves, edits, edHist>>

\* one delivery of a notification of kind k to editor e: at-least-once and
\* unordered, as for the check-in surface
EdDelivered(e, k) ==
  /\ Mounted(e)
  /\ k \in edInbox[e]
  /\ UNCHANGED edInbox

\* LayoutBuilder.jsx 356-374: layout_changed, seat_assigned, seat_unassigned
Invalidate(e) == [edPull EXCEPT ![e] = IF edDragging[e] THEN @ ELSE Requested]

EdOnLayoutChanged(e) ==
  /\ EdDelivered(e, "layout_changed")
  /\ edPull' = Invalidate(e)
  /\ UNCHANGED <<srvVars, surfaces, env, ciVars, edTables, edLayoutData, edDragging, edGesture,
                 edSelected, edTimer, edSaves, edAcks, edits, edHist>>

EdOnSeatAssigned(e) ==
  /\ EdDelivered(e, "seat_assigned")
  /\ edPull' = Invalidate(e)
  /\ UNCHANGED <<srvVars, surfaces, env, ciVars, edTables, edLayoutData, edDragging, edGesture,
                 edSelected, edTimer, edSaves, edAcks, edits, edHist>>

EdOnSeatUnassigned(e) ==
  /\ EdDelivered(e, "seat_unassigned")
  /\ edPull' = Invalidate(e)
  /\ UNCHANGED <<srvVars, surfaces, env, ciVars, edTables, edLayoutData, edDragging, edGesture,
                 edSelected, edTimer, edSaves, edAcks, edits, edHist>>

\* LayoutBuilder.jsx 376-378: only the guests query is invalidated
EdOnGuestUpdated(e) ==
  /\ EdDelivered(e, "guest_updated")
  /\ UNCHANGED <<srvVars, surfaces, env, ciVars, edTables, edLayoutData, edPull, edDragging,
                 edGesture, edSelected, edTimer, edSaves, edAcks, edits, edHist>>

\* LayoutBuilder.jsx 380-383: both queries are invalidated, dragging or not
EdOnGuestDeleted(e) ==
  /\ EdDelivered(e, "guest_deleted")
  /\ edPull' = [edPull EXCEPT ![e] = Requested]
  /\ UNCHANGED <<srvVars, surfaces, env, ciVars, edTables, edLayoutData, edDragging, edGesture,
                 edSelected, edTimer, edSaves, edAcks, edits, edHist>>

\* a peer editor commits the stored layout with one table moved
PeerMoveTable(tid, p) ==
  /\ commits < budget.commits
  /\ tid \in TableIds(srvTables)
  /\ srvTables' = MoveTable(srvTables, tid, Snap(p))
  /\ Emit(Notif("layout_changed", Null, Null, Null, <<>>))
  /\ commits' = commits + 1
  /\ UNCHANGED srvGuests
  /\ PeerFrame

\* ========================================================== specifications
Surfaces == {"ci"} \cup Editors

\* the socket is connected and in the room of the event; every surface of ss
\* has registered its handlers once and its handlersRef records them
Connected(ss) ==
  [up |-> TRUE, room |-> TRUE,
   regs |-> [u \in Surfaces |-> IF u \in ss THEN 1 ELSE 0],
   ref |-> [u \in Surfaces |-> u \in ss]]

\* no guest is selected, the detail dialog is closed, no command was issued
NoDlg == [selected |-> <<>>, open |-> FALSE, pending |-> <<>>, issued |-> <<>>]

\* LayoutBuilder.jsx 496-505: no deleteTable request is in flight
NoDelete == [st |-> "idle", id |-> Null]

\* socket.js 11-13: the constructor; no connection was created
NoSocket == [socket |-> 0, conns |-> <<>>]

InitEnv ==
  /\ sock = Connected(surfaces)
  /\ ciDlg = NoDlg
  /\ edDelete = [e \in Editors |-> NoDelete]
  /\ svc = NoSocket

InitServer ==
  /\ srvTables = InitTables
  /\ srvGuests = InitGuests
  /\ commits = 0

\* no check-in surface is mounted
NoCI ==
  /\ notifs = {}
  /\ ciGuests = Undefined
  /\ ciLayout = Undefined
  /\ ciGuestsPull = Idle
  /\ ciLayoutPull = Idle
  /\ ciLast = NoLast

\* the editors of set es have just been mounted: their layout query is loading
EditorsMounted(es) ==
  /\ edTables = [e \in Editors |-> <<>>]
  /\ edLayoutData = [e \in Editors |-> Undefined]
  /\ edPull = [e \in Editors |-> IF e \in es THEN Requested ELSE Idle]
  /\ edDragging = [e \in Editors |-> FALSE]
  /\ edGesture = [e \in Editors |-> NoGesture]
  /\ edSelected = [e \in Editors |-> Null]
  /\ edTimer = [e \in Editors |-> NoTimer]
  /\ edSaves = [e \in Editors |-> {}]
  /\ edAcks = [e \in Editors |-> 0]
  /\ edInbox = [e \in Editors |-> {}]
  /\ edits = [e \in Editors |-> 0]
  /\ edHist = [e \in Editors |-> NoHist]

\* the check-in surface has just been mounted: both queries are loading
InitCI ==
  /\ InitServer
  /\ surfaces = {"ci"}
  /\ budget = [commits |-> MaxCommits, edits |-> 0, track |-> FALSE]
  /\ notifs = {}
  /\ ciGuests = Undefined
  /\ ciLayout = Undefined
  /\ ciGuestsPull = Requested
  /\ ciLayoutPull = Requested
  /\ ciLast = NoLast
  /\ EditorsMounted({})
  /\ InitEnv

NextCI ==
  \/ \E g \in GuestIds, k \in SeatKeys(srvTables), w \in BOOLEAN : PeerAssign(g, k[1], k[2], w)
  \/ \E g \in GuestIds : PeerUnassign(g)
  \/ \E g \in GuestIds : PeerCheckIn(g)
  \/ \E g \in GuestIds : PeerCheckOut(g)
  \/ \E g \in GuestIds : PeerUpdateGuest(g)
  \/ \E g \in GuestIds : PeerCreateGuest(g)
  \/ \E g \in GuestIds : PeerDeleteGuest(g)
  \/ \E tid \in TableIds(srvTables), p \in DropPoints : PeerMoveTable(tid, p)
  \/ SrvGetGuestsCI
  \/ SrvGetLayoutCI
  \/ CIGuestsFetched
  \/ CILayoutFetched
  \/ CIVisibilityChange
  \/ \E n \in notifs : CIOnGuestCheckedIn(n)
  \/ \E n \in notifs : CIOnGuestCheckedOut(n)
  \/ \E n \in notifs : CIOnSeatUnassigned(n)
  \/ \E n \in notifs : CIOnSeatAssigned(n)
  \/ \E n \in notifs : CIOnGuestUpdated(n)
  \/ \E n \in notifs : CIOnLayoutChanged(n)

SpecCI == InitCI /\ [][NextCI]_vars

\* one editor is open and works alone
InitEd ==
  /\ InitServer
  /\ surfaces = {"e1"}
  /\ budget = [commits |-> 0, edits |-> MaxEdits, track |-> FALSE]
  /\ NoCI
  /\ EditorsMounted({"e1"})
  /\ InitEnv

NextEd ==
  \/ \E e \in Editors : SrvGetLayoutEd(e)
  \/ \E e \in Editors : EdLayoutFetched(e)
  \/ \E e \in Editors : \E tid \in TableIds(edTables[e]) : EdTableDragStart(e, tid)
  \/ \E e \in Editors, p \in DropPoints : EdTableDragEnd(e, p)
  \/ \E e \in Editors : \E k \in SeatKeys(edTables[e]) : EdSeatDragStart(e, k[1], k[2])
  \/ \E e \in Editors, p \in SeatDropPoints : EdSeatDragEnd(e, p)
  \/ \E e \in Editors : \E tid \in TableIds(edTables[e]) : EdSelect(e, tid)
  \/ \E e \in Editors, r \in Rotations : EdRotate(e, r)
  \/ Tick
  \/ \E e \in Editors : \E t \in edTimer[e].pending : EdFlush(e, t)
  \/ \E e \in Editors : \E r \in edSaves[e] : SrvPutLayout(e, r)
  \/ \E e \in Editors : EdSaveSuccess(e)
  \/ \E e \in Editors : EdOnLayoutChanged(e)

SpecEd == InitEd /\ [][NextEd]_vars

\* one editor drags tables and seats while peers commit seat assignments and
\* guest changes
NextPeers ==
  \/ \E g \in GuestIds, k \in SeatKeys(srvTables), w \in BOOLEAN : PeerAssign(g, k[1], k[2], w)
  \/ \E g \in GuestIds : PeerUnassign(g)
  \/ \E g \in GuestIds : PeerUpdateGuest(g)
  \/ \E g \in GuestIds : PeerDeleteGuest(g)
  \/ \E e \in Editors : SrvGetLayoutEd(e)
  \/ \E e \in Editors : EdLayoutFetched(e)
  \/ \E e \in Editors : \E tid \in TableIds(edTables[e]) : EdTableDragStart(e, tid)
  \/ \E e \in Editors, p \in DropPoints : EdTableDragEnd(e, p)
  \/ \E e \in Editors : \E k \in SeatKeys(edTables[e]) : EdSeatDragStart(e, k[1], k[2])
  \/ \E e \in Editors, p \in SeatDropPoints : EdSeatDragEnd(e, p)
  \/ Tick
  \/ \E e \in Editors : \E t \in edTimer[e].pending : EdFlush(e, t)
  \/ \E e \in Editors : \E r \in edSaves[e] : SrvPutLayout(e, r)
  \/ \E e \in Editors : EdSaveSuccess(e)
  \/ \E e \in Editors : EdOnLayoutChanged(e)
  \/ \E e \in Editors : EdOnSeatAssigned(e)
  \/ \E e \in Editors : EdOnSeatUnassigned(e)
  \/ \E e \in Editors : EdOnGuestUpdated(e)
  \/ \E e \in Editors : EdOnGuestDeleted(e)

\* suppression during one drag, observed against the peers' commits
InitSup ==
  /\ InitServer
  /\ surfaces = {"e1"}
  /\ budget = [commits |-> MaxPeerCommits, edits |-> MaxDrags, track |-> FALSE]
  /\ NoCI
  /\ EditorsMounted({"e1"})
  /\ InitEnv

SpecSup == InitSup /\ [][NextPeers]_vars

\* several edits racing with the peers' commits
InitRace ==
  /\ InitServer
  /\ surfaces = {"e1"}
  /\ budget = [commits |-> MaxPeerCommits, edits |-> MaxEdits, track |-> FALSE]
  /\ NoCI
  /\ EditorsMounted({"e1"})
  /\ InitEnv

SpecRace == InitRace /\ [][NextPeers]_vars

\* two editors are open at the same time and move tables (Scenario D)
InitD ==
  /\ InitServer
  /\ surfaces = {"e1", "e2"}
  /\ budget = [commits |-> 0, edits |-> MaxEditsEach, track |-> FALSE]
  /\ NoCI
  /\ EditorsMounted({"e1", "e2"})
  /\ InitEnv

NextD ==
  \/ \E e \in Editors : SrvGetLayoutEd(e)
  \/ \E e \in Editors : EdLayoutFetched(e)
  \/ \E e \in Editors : \E tid \in TableIds(edTables[e]) : EdTableDragStart(e, tid)
  \/ \E e \in Editors, p \in DropPoints : EdTableDragEnd(e, p)
  \/ Tick
  \/ \E e \in Editors : \E t \in edTimer[e].pending : EdFlush(e, t)
  \/ \E e \in Editors : \E r \in edSaves[e] : SrvPutLayout(e, r)
  \/ \E e \in Editors : EdSaveSuccess(e)
  \/ \E e \in Editors : EdOnLayoutChanged(e)

SpecD == InitD /\ [][NextD]_vars

\* ================================================================= claims
\* position of seat sid of table tid in a table list
SeatPosition(tbls, tid, sid) ==
  LET t == TableById(tbls, tid)
  IN t.seats[CHOOSE j \in 1..Len(t.seats) : t.seats[j].id = sid].position

\* a table list contains the edits recorded in history h
ContainsEdits(tbls, h) ==
  /\ \A m \in h.unflushedPos :
       m[1] \in TableIds(tbls) /\ TableById(tbls, m[1]).position = m[2]
  /\ \A m \in h.unflushedSeat :
       m[1] \in SeatKeys(tbls) /\ SeatPosition(tbls, m[1][1], m[1][2]) = m[2]
  /\ \A m \in h.unflushedRot :
       m[1] \in TableIds(tbls) /\ TableById(tbls, m[1]).rotation = m[2]

\* C1: in the layout cache of the check-in surface, after any pulls and any
\* seat_assigned / seat_unassigned notifications in any order and multiplicity,
\* no guest id is the guest_id of more than one seat across all tables
C1_GuestSeatedOnce ==
  ciLayout.defined =>
    \A g \in GuestIds : Cardinality(SeatsHolding(ciLayout.v, g)) <= 1

\* a seat_assigned was just applied to a layout in which its guest held
\* another seat, and the guest now holds the target seat
C1_Witness ==
  /\ ciLast.n # <<>>
  /\ ciLast.n[1].kind = "seat_assigned"
  /\ ciLast.from # {}
  /\ <<ciLast.n[1].table_id, ciLast.n[1].seat_id>> \notin ciLast.from
  /\ ciLayout.defined
  /\ <<ciLast.n[1].table_id, ciLast.n[1].seat_id>> \in SeatsHolding(ciLayout.v, ciLast.n[1].guest_id)

\* C2: immediately after a seat_assigned or seat_unassigned notification has
\* been applied, for every guest g of the guest list and every seat s of every
\* table t of the layout: s.guest_id = g.id iff g.table_id = t.id and
\* g.seat_id = s.id
C2_SidesAgree ==
  ( /\ ciLast.n # <<>>
    /\ ciLast.n[1].kind \in {"seat_assigned", "seat_unassigned"}
    /\ ciGuests.defined
    /\ ciLayout.defined )
  => \A i \in 1..Len(ciGuests.v) : \A k \in SeatKeys(ciLayout.v) :
       (SeatGuest(ciLayout.v, k[1], k[2]) = ciGuests.v[i].id)
         <=> (ciGuests.v[i].table_id = k[1] /\ ciGuests.v[i].seat_id = k[2])

\* C3: while a table drag is open in the editor, no step (pulled snapshot or
\* pushed notification) changes the position, rotation or seats of the dragged
\* table in the local table list
C3_DraggedTableUntouched ==
  [][ \A e \in Editors :
        (edGesture[e].kind = "table" /\ edGesture'[e].kind = "table")
        => /\ edGesture[e].table \in TableIds(edTables'[e])
           /\ TableById(edTables'[e], edGesture[e].table)
                = TableById(edTables[e], edGesture[e].table) ]_vars

\* a table drag is open and a snapshot that differs from the cached one has
\* arrived since it started
C3_Witness ==
  \E e \in Editors :
    /\ edGesture[e].kind = "table"
    /\ edHist[e].dropped
    /\ edLayoutData[e].v # edTables[e]

\* C4: every gesture that sets suppression clears it when the gesture ends:
\* with no gesture open, isDraggingRef is false
C4_SuppressionCleared ==
  \A e \in Editors : edGesture[e].kind = "none" => ~edDragging[e]

\* C5: a position committed by a table drag end stays in the local table list
\* for as long as the server has not applied a commit that contains it (so
\* that no received snapshot can contain it either)
C5_CommittedPositionKept ==
  \A e \in Editors : \A o \in edHist[e].owed :
    /\ o[1] \in TableIds(edTables[e])
    /\ TableById(edTables[e], o[1]).position = o[2]

\* C6 (Scenario D): two editors have each dragged a different table, one drag
\* ending while the other's move had not reached the server; once both have
\* flushed and the server has applied both commits, the stored layout (what a
\* third client pulls) shows both tables at their new positions
C6_BothMovesSurvive ==
  ( /\ \A e \in Editors : edHist[e].moved # {} /\ ~Busy(e)
    /\ \E e \in Editors : edHist[e].overlap
    /\ \A e1, e2 \in Editors : e1 # e2 =>
         { m[1] : m \in edHist[e1].moved } \cap { m[1] : m \in edHist[e2].moved } = {} )
  => \A e \in Editors : \A m \in edHist[e].moved :
       TableById(srvTables, m[1]).position = m[2]

\* C7: a flush is issued only by the timer of the last triggerAutoSave call,
\* only after the delay has elapsed since that call, with the table list
\* passed to that call, and it leaves no other timer pending: one burst of
\* calls issues one commitLayout
C7_Debounce ==
  [][ \A e \in Editors :
        edHist'[e].flushes # edHist[e].flushes
        => LET t == edHist'[e].flushed[1]
           IN /\ t.id = edTimer[e].ref
              /\ t.elapsed >= AutosaveDelay
              /\ <<t.tables>> = edHist[e].lastSched
              /\ edTimer'[e].pending = {}
              /\ edHist'[e].flushes = edHist[e].flushes + 1 ]_vars

\* the only flush so far was issued by the timer of the second call: the
\* timer of the first call was reset
C7_Witness ==
  \E e \in Editors :
    /\ edHist[e].flushes = 1
    /\ edHist[e].flushed[1].id = 2
    /\ edSaves[e] # {}

\* C8: every edit committed locally since the last flush is contained in the
\* payload the pending autosave timer will send
C8_PayloadHasEveryEdit ==
  \A e \in Editors : \A t \in edTimer[e].pending : ContainsEdits(t.tables, edHist[e])

\* C9: applying to the caches a notification that the previous step has just
\* applied leaves the guest list and the layout as they are
C9_Idempotent ==
  [][ ciLast'.rep => (ciGuests' = ciGuests /\ ciLayout' = ciLayout) ]_vars

\* a seat_assigned carrying a guest object was applied twice in a row to
\* defined caches
C9_Witness ==
  /\ ciLast.rep
  /\ ciLast.n[1].kind = "seat_assigned"
  /\ ciLast.n[1].guest # <<>>
  /\ ciGuests.defined
  /\ ciLayout.defined

\* C10 (Scenario B): when the guest of a seat_assigned holds exactly one seat
\* S1 of the layout cache and the target seat S2 is a seat of another table,
\* the very next layout has the guest on S2 and on no other seat: S1 is
\* vacated and S2 taken in one step
C10_ReassignAtomic ==
  [][ \A n \in notifs :
        ( /\ ciLast'.n = <<n>>
          /\ n.kind = "seat_assigned"
          /\ ciLayout.defined
          /\ <<n.table_id, n.seat_id>> \in SeatKeys(ciLayout.v)
          /\ Cardinality(SeatsHolding(ciLayout.v, n.guest_id)) = 1
          /\ \A k \in SeatsHolding(ciLayout.v, n.guest_id) : k[1] # n.table_id )
        => SeatsHolding(ciLayout'.v, n.guest_id) = { <<n.table_id, n.seat_id>> } ]_vars

\* a seat_assigned to a seat of table B was just applied to a layout in which
\* its guest held seat s1 of table A
C10_Witness ==
  /\ ciLast.n # <<>>
  /\ ciLast.n[1].kind = "seat_assigned"
  /\ ciLast.n[1].table_id = "B"
  /\ ciLast.from = { <<"A", "s1">> }
  /\ ciLayout.defined
  /\ SeatGuest(ciLayout.v, "A", "s1") = Null
  /\ SeatGuest(ciLayout.v, "B", "s3") = ciLast.n[1].guest_id

\* ------------------------------------------- convergence of the check-in view
\* bound of the peer commits of the convergence runs
MaxConvCommits == 2

\* the check-in surface has just been mounted; every delivery is recorded
InitConv ==
  /\ InitServer
  /\ surfaces = {"ci"}
  /\ budget = [commits |-> MaxConvCommits, edits |-> 0, track |-> TRUE]
  /\ notifs = {}
  /\ ciGuests = Undefined
  /\ ciLayout = Undefined
  /\ ciGuestsPull = Requested
  /\ ciLayoutPull = Requested
  /\ ciLast = NoLast
  /\ EditorsMounted({})
  /\ InitEnv

\* peers check in, check out, update, assign and unassign; the surface pulls
\* and handles the notifications
NextConv ==
  \/ \E g \in GuestIds, k \in SeatKeys(srvTables) : PeerAssign(g, k[1], k[2], TRUE)
  \/ \E g \in GuestIds : PeerUnassign(g)
  \/ \E g \in GuestIds : PeerCheckIn(g)
  \/ \E g \in GuestIds : PeerCheckOut(g)
  \/ \E g \in GuestIds : PeerUpdateGuest(g)
  \/ SrvGetGuestsCI
  \/ SrvGetLayoutCI
  \/ CIGuestsFetched
  \/ CILayoutFetched
  \/ \E n \in notifs : CIOnGuestCheckedIn(n)
  \/ \E n \in notifs : CIOnGuestCheckedOut(n)
  \/ \E n \in notifs : CIOnSeatUnassigned(n)
  \/ \E n \in notifs : CIOnSeatAssigned(n)
  \/ \E n \in notifs : CIOnGuestUpdated(n)

SpecConv == InitConv /\ [][NextConv]_vars

\* every notification emitted so far has reached the surface at least once
\* and no pull of the surface is in flight
Quiescent ==
  /\ notifs # {}
  /\ ciLast.seen = notifs
  /\ ciGuestsPull = Idle
  /\ ciLayoutPull = Idle

\* C11: once every notification of the peers' commits (check-in, check-out,
\* guest update, assign, unassign) has been delivered at least once, in any
\* order, and every pull of the check-in surface has completed, the guest
\* list and the layout of the surface equal the server's
C11_Converged ==
  Quiescent =>
    /\ ciGuests.defined /\ ciGuests.v = srvGuests
    /\ ciLayout.defined /\ ciLayout.v = srvTables

\* ------------------------------------------------ the channel drops (Scenario E)
\* socket.js 29-47: the transport is lost; the server takes the socket out of
\* every room, the client retries by itself (reconnection: true)
SockDrop ==
  /\ sock.up
  /\ sock' = [sock EXCEPT !.up = FALSE, !.room = FALSE]
  /\ ciLast' = Rest
  /\ UNCHANGED <<srvVars, surfaces, budget, svc, edDelete, ciDlg, edVars,
                 notifs, ciGuests, ciLayout, ciGuestsPull, ciLayoutPull>>

\* socket.js 41-43, 90-92: the socket reconnects; the 'connect' listeners log,
\* join_event was emitted by the effect of useSocket (useSocket.js 9-15) only
SockReconnect ==
  /\ ~sock.up
  /\ sock' = [sock EXCEPT !.up = TRUE]
  /\ ciLast' = Rest
  /\ UNCHANGED <<srvVars, surfaces, budget, svc, edDelete, ciDlg, edVars,
                 notifs, ciGuests, ciLayout, ciGuestsPull, ciLayoutPull>>

\* bound of the peer commits of the runs in which the channel drops
MaxOutageCommits == 1

InitE ==
  /\ InitServer
  /\ surfaces = {"ci"}
  /\ budget = [commits |-> MaxOutageCommits, edits |-> 0, track |-> FALSE]
  /\ notifs = {}
  /\ ciGuests = Undefined
  /\ ciLayout = Undefined
  /\ ciGuestsPull = Requested
  /\ ciLayoutPull = Requested
  /\ ciLast = NoLast
  /\ EditorsMounted({})
  /\ InitEnv

NextE ==
  \/ SockDrop
  \/ SockReconnect
  \/ \E g \in GuestIds, k \in SeatKeys(srvTables) : PeerAssign(g, k[1], k[2], TRUE)
  \/ \E g \in GuestIds : PeerUnassign(g)
  \/ \E g \in GuestIds : PeerCheckIn(g)
  \/ SrvGetGuestsCI
  \/ SrvGetLayoutCI
  \/ CIGuestsFetched
  \/ CILayoutFetched
  \/ \E n \in notifs : CIOnGuestCheckedIn(n)
  \/ \E n \in notifs : CIOnSeatUnassigned(n)
  \/ \E n \in notifs : CIOnSeatAssigned(n)

SpecE == InitE /\ [][NextE]_vars

\* C12 (Scenario E): when the socket reconnects while the view of the
\* check-in surface is stale (it differs from the server state and no pull is
\* in flight), the reconnect step issues a pull of the guests and of the layout
C12_PullOnReconnect ==
  [][ ( /\ ~sock.up /\ sock'.up
        /\ "ci" \in surfaces
        /\ ciGuestsPull = Idle /\ ciLayoutPull = Idle
        /\ (ciGuests.v # srvGuests \/ ciLayout.v # srvTables) )
      => (ciGuestsPull' = Requested /\ ciLayoutPull' = Requested) ]_vars

\* ---------------------------------------------------------------- C13, C14
\* socket.js 134-138 below useSocket.js 33-36, called as socket.off(event) by
\* the cleanup of a surface's notification effect (CheckInView.jsx 447-455,
\* LayoutBuilder.jsx 385-391): the listener passed on is undefined, which
\* matches no registered listener, and the entry of handlersRef is deleted
EffectCleanup(sk, u) == [sk EXCEPT !.ref[u] = FALSE]

\* useSocket.js 28-31 under the notification effect of a surface: its handlers
\* are added to the shared socket and handlersRef records them
EffectRun(sk, u) == [sk EXCEPT !.regs[u] = @ + 1, !.ref[u] = TRUE]

\* useSocket.js 17-25, socket.js 106-111: leave_event is emitted when the
\* socket is connected, and the handlers recorded in handlersRef are removed
HookCleanup(sk, u) ==
  [sk EXCEPT !.room = IF sk.up THEN FALSE ELSE @,
             !.regs[u] = IF sk.ref[u] THEN @ - 1 ELSE @,
             !.ref[u] = FALSE]

\* the cleanups of a surface that unmounts, in the order of its effects
Unmount(sk, u) == EffectCleanup(HookCleanup(sk, u), u)

\* the editor is left: its effects are cleaned up; nothing touches
\* saveTimeoutRef (LayoutBuilder.jsx 416-436)
EdLeave(e) ==
  /\ Mounted(e)
  /\ surfaces' = surfaces \ {e}
  /\ sock' = Unmount(sock, e)
  /\ ciLast' = Rest
  /\ UNCHANGED <<srvVars, budget, svc, edDelete, ciDlg, notifs, ciGuests, ciLayout, ciGuestsPull,
                 ciLayoutPull, edVars>>

\* a failed commitLayout whose error handler restores the last server layout
SrvRejectLayout_Rollback(e, r) ==
  /\ r \in edSaves[e]
  /\ edSaves' = [edSaves EXCEPT ![e] = @ \ {r}]
  /\ edTables' = [edTables EXCEPT ![e] = edLayoutData[e].v]
  /\ edHist' = [edHist EXCEPT ![e].failed = <<r.tables>>]
  /\ UNCHANGED <<srvVars, surfaces, env, ciVars, edInbox, edLayoutData, edPull,
                 edDragging, edGesture, edSelected, edTimer, edAcks, edits>>

\* LayoutBuilder.jsx 407-413, api.js 105-131: a commitLayout request fails;
\* the mutation has no onError, the server state is not changed
SrvRejectLayout(e, r) ==
  /\ r \in edSaves[e]
  /\ edSaves' = [edSaves EXCEPT ![e] = @ \ {r}]
  /\ edHist' = [edHist EXCEPT ![e].failed = <<r.tables>>]
  /\ UNCHANGED <<srvVars, surfaces, env, ciVars, edInbox, edTables, edLayoutData, edPull,
                 edDragging, edGesture, edSelected, edTimer, edAcks, edits>>

\* LayoutBuilder.jsx 570-582: handleSaveLayout sends the current table list;
\* a manual request carries id 0
EdSaveLayout(e) ==
  /\ Mounted(e)
  /\ edGesture[e].kind = "none"
  /\ edits[e] < budget.edits
  /\ edits' = [edits EXCEPT ![e] = @ + 1]
  /\ edSaves' = [edSaves EXCEPT ![e] = @ \cup { [id |-> 0, tables |-> edTables[e]] }]
  /\ UNCHANGED <<srvVars, surfaces, env, ciVars, edInbox, edTables, edLayoutData, edPull,
                 edDragging, edGesture, edSelected, edTimer, edAcks, edHist>>

MaxExitEdits == 3
\* handler generations of one surface followed on the shared socket
MaxRegs == 2

InitExit ==
  /\ InitServer
  /\ surfaces = {"e1"}
  /\ budget = [commits |-> 0, peer |-> 0, edits |-> MaxExitEdits, track |-> FALSE]
  /\ NoCI
  /\ EditorsMounted({"e1"})
  /\ InitEnv

NextExit ==
  \/ SrvGetLayoutEd("e1")
  \/ EdLayoutFetched("e1")
  \/ \E tid \in TableIds(edTables["e1"]) : EdTableDragStart("e1", tid)
  \/ \E p \in DropPoints : EdTableDragEnd("e1", p)
  \/ Tick
  \/ \E t \in edTimer["e1"].pending : EdFlush("e1", t)
  \/ \E r \in edSaves["e1"] : SrvPutLayout("e1", r)
  \/ \E r \in edSaves["e1"] : SrvRejectLayout("e1", r)
  \/ EdSaveSuccess("e1")
  \/ EdSaveLayout("e1")
  \/ EdOnLayoutChanged("e1")
  \/ EdLeave("e1")

SpecExit == InitExit /\ [][NextExit]_vars

\* C13: once the editor is left, no commitLayout request is issued for it
C13_NoSaveAfterExit ==
  [][ \A e \in Editors : ~Mounted(e) => edSaves'[e] \subseteq edSaves[e] ]_vars

\* C15: a failed commitLayout leaves the editor's table list and its timer as
\* they were; after a failure a manual save sends the table list of that
\* moment and a schedule call arms the timer with the list it just committed
C15_NoRollbackResendCurrent ==
  [][ \A e \in Editors :
        /\ edHist'[e].failed # edHist[e].failed
           => edTables'[e] = edTables[e] /\ edTimer'[e] = edTimer[e]
        /\ edHist[e].failed # <<>>
           => /\ \A r \in edSaves'[e] \ edSaves[e] : r.id = 0 => r.tables = edTables[e]
              /\ \A t \in edTimer'[e].pending :
                   t.id > edits[e] => t.tables = edTables'[e] ]_vars

\* a commitLayout failed, the list was edited since, and a manual save carries
\* the edited list
C15_Witness ==
  /\ edHist["e1"].failed # <<>>
  /\ \E r \in edSaves["e1"] :
       r.id = 0 /\ r.tables = edTables["e1"] /\ r.tables # edHist["e1"].failed[1]

\* a dependency of the notification effect of the check-in surface changes
\* (CheckInView.jsx 455): the cleanup runs, then the effect registers anew
CIEffectRerun ==
  /\ "ci" \in surfaces
  /\ sock.regs["ci"] < MaxRegs
  /\ sock' = EffectRun(EffectCleanup(sock, "ci"), "ci")
  /\ ciLast' = Rest
  /\ UNCHANGED <<srvVars, surfaces, budget, svc, edDelete, ciDlg, notifs, ciGuests, ciLayout,
                 ciGuestsPull, ciLayoutPull, edVars>>

\* the check-in surface is left: its effects are cleaned up
CILeave ==
  /\ "ci" \in surfaces
  /\ surfaces' = surfaces \ {"ci"}
  /\ sock' = Unmount(sock, "ci")
  /\ ciLast' = Rest
  /\ UNCHANGED <<srvVars, budget, svc, edDelete, ciDlg, notifs, ciGuests, ciLayout, ciGuestsPull,
                 ciLayoutPull, edVars>>

MaxTeardownCommits == 1

InitTeardown ==
  /\ InitServer
  /\ surfaces = {"ci"}
  /\ budget = [commits |-> MaxTeardownCommits, peer |-> 0, edits |-> 0, track |-> FALSE]
  /\ notifs = {}
  /\ ciGuests = Undefined
  /\ ciLayout = Undefined
  /\ ciGuestsPull = Requested
  /\ ciLayoutPull = Requested
  /\ ciLast = NoLast
  /\ EditorsMounted({})
  /\ InitEnv

NextTeardown ==
  \/ \E g \in GuestIds : PeerCheckIn(g)
  \/ SrvGetGuestsCI
  \/ SrvGetLayoutCI
  \/ CIGuestsFetched
  \/ CILayoutFetched
  \/ \E n \in notifs : CIOnGuestCheckedIn(n)
  \/ CIEffectRerun
  \/ CILeave

SpecTeardown == InitTeardown /\ [][NextTeardown]_vars

C16_StaleReferenceDropped ==
  [][ ( /\ ciLast'.n # <<>>
        /\ ciLast'.n[1].kind \in {"seat_assigned", "seat_unassigned"}
        /\ ciGuests.defined /\ ciLayout.defined
        /\ \/ ~HasGuest(ciGuests.v, ciLast'.n[1].guest_id)
           \/ <<ciLast'.n[1].table_id, ciLast'.n[1].seat_id>> \notin SeatKeys(ciLayout.v) )
      => (ciGuests' = ciGuests /\ ciLayout' = ciLayout) ]_vars

\* ---------------------------------------------------------------- C17, C18
\* CheckInView.jsx 478-488: a seat or a guest row is clicked; the guest object
\* of the rendered list is kept as selectedGuest and the dialog opens
CIGuestClick(g) ==
  /\ "ci" \in surfaces
  /\ ~ciDlg.open
  /\ ciGuests.defined
  /\ HasGuest(ciGuests.v, g)
  /\ ciDlg' = [ciDlg EXCEPT !.selected = <<ciGuests.v[GuestIndex(ciGuests.v, g)]>>,
                            !.open = TRUE]
  /\ ciLast' = Rest
  /\ UNCHANGED <<srvVars, surfaces, budget, svc, edDelete, sock, edVars, notifs, ciGuests, ciLayout,
                 ciGuestsPull, ciLayoutPull>>

\* CheckInView.jsx 490-500, 895-914: the button of the dialog is pressed; it
\* is the Check In button when selectedGuest is not checked in, the Check Out
\* button otherwise, and is disabled while its mutation is pending
CIHandleCommand(kind) ==
  /\ "ci" \in surfaces
  /\ ciDlg.open
  /\ ciDlg.selected # <<>>
  /\ ciDlg.pending = <<>>
  /\ ciDlg.selected[1].checked_in = (kind = "checkout")
  /\ ciDlg' = [ciDlg EXCEPT
       !.pending = << [kind |-> kind, guest_id |-> ciDlg.selected[1].id, st |-> "sent"] >>,
       !.issued = <<kind>>]
  /\ ciLast' = Rest
  /\ UNCHANGED <<srvVars, surfaces, budget, svc, edDelete, sock, edVars, notifs, ciGuests, ciLayout,
                 ciGuestsPull, ciLayoutPull>>

\* POST /checkin, POST /checkout: the server commits the command when the
\* guest's status allows it and rejects it otherwise
SrvCommand ==
  /\ ciDlg.pending # <<>>
  /\ ciDlg.pending[1].st = "sent"
  /\ LET c == ciDlg.pending[1]
         ok == /\ HasGuest(srvGuests, c.guest_id)
               /\ srvGuests[GuestIndex(srvGuests, c.guest_id)].checked_in = (c.kind = "checkout")
     IN IF ok
        THEN /\ IF c.kind = "checkin" THEN SrvCheckIn(c.guest_id) ELSE SrvCheckOut(c.guest_id)
             /\ ciDlg' = [ciDlg EXCEPT !.pending[1].st = "ok"]
        ELSE /\ ciDlg' = [ciDlg EXCEPT !.pending[1].st = "err"]
             /\ UNCHANGED <<srvVars, notifs, edInbox>>
  /\ ciLast' = Rest
  /\ UNCHANGED <<surfaces, budget, svc, edDelete, sock, edLocal, ciGuests, ciLayout, ciGuestsPull,
                 ciLayoutPull>>

\* CheckInView.jsx 259-278: the mutation settles; onSuccess refetches the
\* guests and closes the dialog, a failure has no handler
CICommandSettled ==
  /\ ciDlg.pending # <<>>
  /\ ciDlg.pending[1].st # "sent"
  /\ IF ciDlg.pending[1].st = "ok"
     THEN /\ ciDlg' = [ciDlg EXCEPT !.pending = <<>>, !.open = FALSE]
          /\ ciGuestsPull' = Requested
     ELSE /\ ciDlg' = [ciDlg EXCEPT !.pending = <<>>]
          /\ UNCHANGED ciGuestsPull
  /\ ciLast' = Rest
  /\ UNCHANGED <<srvVars, surfaces, budget, svc, edDelete, sock, edVars, notifs, ciGuests, ciLayout,
                 ciLayoutPull>>

\* CheckInView.jsx 891-893: the Close button
CIClose ==
  /\ ciDlg.open
  /\ ciDlg' = [ciDlg EXCEPT !.open = FALSE]
  /\ ciLast' = Rest
  /\ UNCHANGED <<srvVars, surfaces, budget, svc, edDelete, sock, edVars, notifs, ciGuests, ciLayout,
                 ciGuestsPull, ciLayoutPull>>

MaxDeskCommits == 3

InitDesk ==
  /\ InitServer
  /\ surfaces = {"ci"}
  /\ budget = [commits |-> MaxDeskCommits, peer |-> 0, edits |-> 0, track |-> TRUE]
  /\ notifs = {}
  /\ ciGuests = Undefined
  /\ ciLayout = Undefined
  /\ ciGuestsPull = Requested
  /\ ciLayoutPull = Requested
  /\ ciLast = NoLast
  /\ EditorsMounted({})
  /\ InitEnv

NextDesk ==
  \/ \E g \in GuestIds : PeerCheckIn(g)
  \/ \E g \in GuestIds : PeerCheckOut(g)
  \/ SrvGetGuestsCI
  \/ SrvGetLayoutCI
  \/ CIGuestsFetched
  \/ CILayoutFetched
  \/ \E n \in notifs : CIOnGuestCheckedIn(n)
  \/ \E n \in notifs : CIOnGuestCheckedOut(n)
  \/ \E g \in GuestIds : CIGuestClick(g)
  \/ \E kind \in {"checkin", "checkout"} : CIHandleCommand(kind)
  \/ SrvCommand
  \/ CICommandSettled
  \/ CIClose

SpecDesk == InitDesk /\ [][NextDesk]_vars

\* C17: applying a check-out to the local guest list sets checked_in to false
\* and keeps the guest's checked_in_at; applying a check-in sets checked_in to
\* true and keeps the guest's checked_out_at
C17_HistoryAdditive ==
  [][ ( ciLast'.n # <<>> /\ ciGuests.defined )
      => \A i \in 1..Len(ciGuests.v) :
           ciGuests.v[i].id = ciLast'.n[1].guest_id
           => /\ ciLast'.n[1].kind = "guest_checked_out"
                 => /\ ~ciGuests'.v[i].checked_in
                    /\ ciGuests'.v[i].checked_in_at = ciGuests.v[i].checked_in_at
              /\ ciLast'.n[1].kind = "guest_checked_in"
                 => /\ ciGuests'.v[i].checked_in
                    /\ ciGuests'.v[i].checked_out_at = ciGuests.v[i].checked_out_at ]_vars

\* a check-in has just been applied to a guest that was listed as checked out:
\* both timestamps are set
C17_Witness ==
  /\ ciLast.n # <<>>
  /\ ciLast.was = <<FALSE>>
  /\ ciLast.n[1].kind = "guest_checked_in"
  /\ \E i \in 1..Len(ciGuests.v) :
       /\ ciGuests.v[i].id = ciLast.n[1].guest_id
       /\ ciGuests.v[i].checked_in
       /\ ciGuests.v[i].checked_out_at # 0
       /\ ciGuests.v[i].checked_in_at > ciGuests.v[i].checked_out_at

\* C18: a check-in command is issued only for a guest that is not checked in
\* in the local guest list at that moment, a check-out command only for a
\* guest that is
C18_CommandFollowsList ==
  [][ ( ciDlg.pending = <<>> /\ ciDlg'.pending # <<>> )
      => \A i \in 1..Len(ciGuests.v) :
           ciGuests.v[i].id = ciDlg'.pending[1].guest_id
           => ciGuests.v[i].checked_in = (ciDlg'.pending[1].kind = "checkout") ]_vars

\* ---------------------------------------------------------------- C19, C20
\* coordinates around the origin at which a dragged node or the pointer may be
SnapRange == 12
SnapPoints == { Pos(x, y) : x, y \in -SnapRange..SnapRange } \cup DropPoints

\* LayoutBuilder.jsx 144-146: Konva moves the node of the dragged table; the
\* node's position is kept with the gesture, and the moves of one drag are
\* taken together as the move to where the node is released
EdTableDragMove(e, p) ==
  /\ Mounted(e)
  /\ edGesture[e].kind = "table"
  /\ "at" \notin DOMAIN edGesture[e]
  /\ edGesture' = [edGesture EXCEPT ![e] =
       [kind |-> "table", table |-> @.table, seat |-> Null, at |-> p]]
  /\ UNCHANGED <<srvVars, surfaces, env, ciVars, edInbox, edTables, edLayoutData, edPull,
                 edDragging, edSelected, edTimer, edSaves, edAcks, edits, edHist>>

\* the position of the node of the table being dragged by e
NodeAt(e) ==
  IF "at" \in DOMAIN edGesture[e] THEN edGesture[e].at
  ELSE TableById(edTables[e], edGesture[e].table).position

\* LayoutBuilder.jsx 152-165: the drag ends where the node is
EdTableDrop(e) ==
  /\ edGesture[e].kind = "table"
  /\ EdTableDragEnd(e, NodeAt(e))

\* LayoutBuilder.jsx 539-568, 483-488: handleAddTable with the pointer at p
\* and no seats; the table is stored (response shape as in api.js 66-78) and
\* onSuccess appends it to the table list
EdAddTable(e, p) ==
  /\ Mounted(e)
  /\ edGesture[e].kind = "none"
  /\ edits[e] < budget.edits
  /\ "C" \notin TableIds(edTables[e]) \cup TableIds(srvTables)
  /\ LET tbl == [id |-> "C", position |-> Pos(SnapAxis(p.x), SnapAxis(p.y)),
                 rotation |-> 0, seats |-> <<>>]
     IN /\ srvTables' = Append(srvTables, tbl)
        /\ edTables' = [edTables EXCEPT ![e] = Append(@, tbl)]
  /\ edits' = [edits EXCEPT ![e] = @ + 1]
  /\ UNCHANGED <<srvGuests, commits, surfaces, env, ciVars, edInbox, edLayoutData, edPull,
                 edDragging, edGesture, edSelected, edTimer, edSaves, edAcks, edHist>>

MaxSnapEdits == 1

InitSnap ==
  /\ InitServer
  /\ surfaces = {"e1"}
  /\ budget = [commits |-> 0, peer |-> 0, edits |-> MaxSnapEdits, track |-> FALSE]
  /\ NoCI
  /\ EditorsMounted({"e1"})
  /\ InitEnv

NextSnap ==
  \/ SrvGetLayoutEd("e1")
  \/ EdLayoutFetched("e1")
  \/ \E tid \in TableIds(edTables["e1"]) : EdTableDragStart("e1", tid)
  \/ \E p \in SnapPoints : EdTableDragMove("e1", p)
  \/ EdTableDrop("e1")
  \/ \E p \in SnapPoints : EdAddTable("e1", p)

SpecSnap == InitSnap /\ [][NextSnap]_vars

\* C19: the position a table drag commits has on each axis the multiple of 20
\* nearest to the node's coordinate, and snapping it again changes nothing
C19_SnapNearestIdempotent ==
  [][ \A e \in Editors :
        (edGesture[e].kind = "table" /\ edGesture'[e].kind = "none")
        => LET p == NodeAt(e)
               q == TableById(edTables'[e], edGesture[e].table).position
           IN /\ q.x % GRID_SIZE = 0 /\ q.y % GRID_SIZE = 0
              /\ 2 * (q.x - p.x) <= GRID_SIZE /\ 2 * (p.x - q.x) <= GRID_SIZE
              /\ 2 * (q.y - p.y) <= GRID_SIZE /\ 2 * (p.y - q.y) <= GRID_SIZE
              /\ Snap(q) = q ]_vars

\* a table was committed at (-20, 20), which only nodes left off the grid
\* snap to
C19_Witness ==
  \E m \in edHist["e1"].moved : m[2] = Pos(-GRID_SIZE, GRID_SIZE)

\* C20: the position a table drag commits to the table list and hands to the
\* autosave schedule is snap(p), (240,240) for a drag from (100,100) to
\* (240,238); every position committed by a drag or by add-table is a
\* multiple of 20 on both axes
C20_DragCommitsSnapped ==
  [][ \A e \in Editors :
        /\ (edGesture[e].kind = "table" /\ edGesture'[e].kind = "none")
           => LET p == NodeAt(e)
                  tid == edGesture[e].table
                  q == TableById(edTables'[e], tid).position
              IN /\ q = Snap(p)
                 /\ p = Pos(240, 238) => q = Pos(240, 240)
                 /\ q.x % GRID_SIZE = 0 /\ q.y % GRID_SIZE = 0
                 /\ \E t \in edTimer'[e].pending :
                      t.id = edits'[e] /\ TableById(t.tables, tid).position = q
        /\ Len(edTables'[e]) > Len(edTables[e]) /\ edits'[e] # edits[e]
           => LET c == edTables'[e][Len(edTables'[e])].position
              IN c.x % GRID_SIZE = 0 /\ c.y % GRID_SIZE = 0 ]_vars

\* table A, loaded at (100,100), was dragged to (240,238): it is committed at
\* (240,240) locally and in the pending autosave
C20_Witness ==
  /\ edLayoutData["e1"].defined
  /\ "A" \in TableIds(edTables["e1"])
  /\ TableById(edLayoutData["e1"].v, "A").position = Pos(100, 100)
  /\ TableById(edTables["e1"], "A").position = Pos(240, 240)
  /\ \E t \in edTimer["e1"].pending : TableById(t.tables, "A").position = Pos(240, 240)

\* C21: a layout snapshot received while a table is being dragged replaces
\* every other table of the local list by the snapshot's version
C21_SnapshotMergedPerTable ==
  [][ \A e \in Editors :
        (edPull[e].st = "resp" /\ edPull'[e].st = "idle" /\ edGesture[e].kind = "table")
        => \A tid \in TableIds(edPull[e].data) \ {edGesture[e].table} :
             /\ tid \in TableIds(edTables'[e])
             /\ TableById(edTables'[e], tid) = TableById(edPull[e].data, tid) ]_vars

\* C22: handling a commitLayout request of an editor changes the guest of no
\* seat of the stored layout
C22_FlushKeepsAssignments ==
  [][ ( \E e \in Editors : edAcks'[e] > edAcks[e] )
      => \A k \in SeatKeys(srvTables) :
           SeatGuest(srvTables', k[1], k[2]) = SeatGuest(srvTables, k[1], k[2]) ]_vars

\* C23: applying the snapshot that echoes the editor's own last flushed
\* commit leaves the editor's table list as it was
C23_OwnEchoNoOp ==
  [][ \A e \in Editors :
        ( /\ edPull[e].st = "resp" /\ edPull'[e].st = "idle"
          /\ edHist[e].flushed # <<>>
          /\ edPull[e].data = edHist[e].flushed[1].tables )
        => edTables'[e] = edTables[e] ]_vars

\* C24: a step of the check-in surface that applies a notification leaves a
\* pull of the guest list and a pull of the layout requested
C24_RefreshAfterNotification ==
  [][ ( ciLast'.n # <<>> /\ ciGuestsPull = Idle /\ ciLayoutPull = Idle )
      => ( ciGuestsPull' = Requested /\ ciLayoutPull' = Requested ) ]_vars

\* C25: the step that issues a check-in or check-out command for a guest
\* leaves the guest's checked_in flipped in the local guest list
C25_OptimisticFlip ==
  [][ ( ciDlg.pending = <<>> /\ ciDlg'.pending # <<>> )
      => \A i \in 1..Len(ciGuests'.v) :
           ciGuests'.v[i].id = ciDlg'.pending[1].guest_id
           => ciGuests'.v[i].checked_in = (ciDlg'.pending[1].kind = "checkin") ]_vars

\* C26: when a guest is removed on the server while the check-in surface is
\* in the room, a guest_deleted notification is on its way to a handler of
\* the surface
C26_GuestRemovedDispatched ==
  [][ \A g \in GuestIds :
        ( /\ HasGuest(srvGuests, g) /\ ~HasGuest(srvGuests', g)
          /\ "ci" \in surfaces /\ sock.room )
        => \E n \in notifs' : n.kind = "guest_deleted" /\ n.guest_id = g ]_vars

\* C27: a table drag end changes only the position of the dragged table, a
\* seat drag end only the position of the dragged seat, a rotation change only
\* the rotation of the selected table; the tables keep their ids and order
C27_MoveGranularity ==
  [][ \A e \in Editors :
        edits'[e] # edits[e]
        => LET old == edTables[e]
               new == edTables'[e]
               g == edGesture[e]
           IN /\ Len(new) = Len(old)
              /\ \A i \in 1..Len(old) :
                   /\ new[i].id = old[i].id
                   /\ g.kind = "table"
                      => IF old[i].id = g.table
                         THEN [new[i] EXCEPT !.position = old[i].position] = old[i]
                         ELSE new[i] = old[i]
                   /\ g.kind = "seat"
                      => IF old[i].id = g.table
                         THEN /\ [new[i] EXCEPT !.seats = old[i].seats] = old[i]
                              /\ Len(new[i].seats) = Len(old[i].seats)
                              /\ \A j \in 1..Len(old[i].seats) :
                                   IF old[i].seats[j].id = g.seat
                                   THEN [new[i].seats[j] EXCEPT
                                           !.position = old[i].seats[j].position]
                                        = old[i].seats[j]
                                   ELSE new[i].seats[j] = old[i].seats[j]
                         ELSE new[i] = old[i]
                   /\ g.kind = "none"
                      => IF old[i].id = edSelected[e]
                         THEN [new[i] EXCEPT !.rotation = old[i].rotation] = old[i]
                         ELSE new[i] = old[i] ]_vars

\* a seat was moved and a table was rotated, and the list shows both
C27_Witness ==
  /\ edHist["e1"].unflushedSeat # {}
  /\ edHist["e1"].unflushedRot # {}
  /\ \E i \in 1..Len(edTables["e1"]) :
       /\ edTables["e1"][i] # InitTables[i]
       /\ edTables["e1"][i].rotation # 0

\* ---------------------------------------------------------------------- C29
\* C29: when the socket reconnects while the check-in surface is open, the
\* reconnect step emits join_event again, so that the socket is a member of
\* the room of the event and the commits made after it are notified
C29_RejoinOnReconnect ==
  [][ ( /\ ~sock.up /\ sock'.up
        /\ "ci" \in surfaces )
      => sock'.room ]_vars

\* ---------------------------------------------------------------------- C30
\* LayoutBuilder.jsx 637-642: handleExportLayout deselects the table
EdDeselect(e) ==
  /\ Mounted(e)
  /\ edGesture[e].kind = "none"
  /\ edSelected[e] # Null
  /\ edSelected' = [edSelected EXCEPT ![e] = Null]
  /\ UNCHANGED <<srvVars, surfaces, env, ciVars, edInbox, edTables, edLayoutData, edPull,
                 edDragging, edGesture, edTimer, edSaves, edAcks, edits, edHist>>

\* LayoutBuilder.jsx 584-588, 768, 817-818: handleDeleteTable; the button is
\* shown for a selected table of the list and is disabled while a request is
\* in flight
EdDeleteTable(e) ==
  /\ Mounted(e)
  /\ edGesture[e].kind = "none"
  /\ edSelected[e] \in TableIds(edTables[e])
  /\ edDelete[e].st = "idle"
  /\ edDelete' = [edDelete EXCEPT ![e] = [st |-> "req", id |-> edSelected[e]]]
  /\ UNCHANGED <<srvVars, surfaces, budget, svc, sock, ciDlg, ciVars, edVars>>

\* the guests seated at table tid lose their table and seat
Unseat(gs, tid) ==
  Map(gs, LAMBDA r :
    IF r.table_id = tid THEN [r EXCEPT !.table_id = Null, !.seat_id = Null] ELSE r)

\* DELETE /layout/tables/{id}: the table leaves the layout and the guests
\* seated at it are vacated
SrvDeleteTable(e) ==
  /\ edDelete[e].st = "req"
  /\ edDelete[e].id \in TableIds(srvTables)
  /\ srvTables' = Filter(srvTables, LAMBDA t : t.id # edDelete[e].id)
  /\ srvGuests' = Unseat(srvGuests, edDelete[e].id)
  /\ Emit(Notif("layout_changed", Null, Null, Null, <<>>))
  /\ edDelete' = [edDelete EXCEPT ![e].st = "resp"]
  /\ UNCHANGED <<commits, surfaces, budget, svc, sock, ciDlg, ciGuests, ciLayout, ciGuestsPull,
                 ciLayoutPull, ciLast, edLocal>>

\* LayoutBuilder.jsx 498-504: deleteTableMutation.onSuccess of the latest
\* render: the filter reads selectedTableId as it is when the response arrives
EdDeleteSuccess(e) ==
  /\ Mounted(e)
  /\ edDelete[e].st = "resp"
  /\ edTables' = [edTables EXCEPT ![e] = Filter(@, LAMBDA t : t.id # edSelected[e])]
  /\ edSelected' = [edSelected EXCEPT ![e] = Null]
  /\ edPull' = Invalidate(e)
  /\ edDelete' = [edDelete EXCEPT ![e] = NoDelete]
  /\ UNCHANGED <<srvVars, surfaces, budget, svc, sock, ciDlg, ciVars, edInbox, edLayoutData,
                 edDragging, edGesture, edTimer, edSaves, edAcks, edits, edHist>>

\* bound of the edits of the runs in which tables are deleted
MaxDeleteEdits == 1

InitDelete ==
  /\ InitServer
  /\ surfaces = {"e1"}
  /\ budget = [commits |-> 0, edits |-> MaxDeleteEdits, track |-> FALSE]
  /\ NoCI
  /\ EditorsMounted({"e1"})
  /\ InitEnv

NextDelete ==
  \/ SrvGetLayoutEd("e1")
  \/ EdLayoutFetched("e1")
  \/ \E tid \in TableIds(edTables["e1"]) : EdSelect("e1", tid)
  \/ EdDeselect("e1")
  \/ EdDeleteTable("e1")
  \/ SrvDeleteTable("e1")
  \/ EdDeleteSuccess("e1")
  \/ EdOnLayoutChanged("e1")

SpecDelete == InitDelete /\ [][NextDelete]_vars

\* C30: the step that handles the success of the deleteTable request for a
\* table removes exactly that table from the editor's table list, whatever
\* the selection is at that moment
C30_DeleteRemovesDeleted ==
  [][ \A e \in Editors :
        (edDelete[e].st = "resp" /\ edDelete'[e].st = "idle")
        => TableIds(edTables'[e]) = TableIds(edTables[e]) \ {edDelete[e].id} ]_vars

\* ---------------------------------------------------------------------- C28
\* bound of the connections the runs of the socket service create
MaxConns == 3

\* socket.js 29-37: the connection io() returns, not yet established
NewConn == [st |-> "connecting", joinSent |-> FALSE, sent |-> FALSE, handlers |-> {}]

\* this.socket?.connected
SocketConnected(sv) == sv.socket # 0 /\ sv.conns[sv.socket].st = "connected"

\* socket.js 19-65: connect() keeps this.socket when it is connected and
\* otherwise assigns a new connection to it; io() called again for the same
\* namespace opens a connection of its own
connect(sv) ==
  IF SocketConnected(sv) THEN sv
  ELSE [socket |-> Len(sv.conns) + 1, conns |-> Append(sv.conns, NewConn)]

\* socket.js 81-87: joinEvent(eventId, userId); an emit on a connection that
\* is being established is buffered and sent when it is
joinEvent(sv) ==
  LET c == IF sv.socket = 0 \/ ~SocketConnected(sv) THEN connect(sv) ELSE sv
  IN [c EXCEPT !.conns[c.socket].joinSent = TRUE]

\* socket.js 119-126: on(event, handler), for the handlers of surface u
on(sv, u) ==
  LET c == IF sv.socket = 0 THEN connect(sv) ELSE sv
  IN [c EXCEPT !.conns[c.socket].handlers = @ \cup {u}]

\* socket.js 134-138: off(event, handler), for the handlers of surface u
off(sv, u) ==
  IF sv.socket # 0 THEN [sv EXCEPT !.conns[sv.socket].handlers = @ \ {u}] ELSE sv

\* socket.js 144-150: emit(event, data)
emit(sv) ==
  IF SocketConnected(sv) THEN [sv EXCEPT !.conns[sv.socket].sent = TRUE] ELSE sv

\* a call changes the service to nsv, within the bound of the connections
Call(nsv) ==
  /\ nsv # svc
  /\ Len(nsv.conns) <= MaxConns
  /\ svc' = nsv
  /\ UNCHANGED <<srvVars, surfaces, budget, sock, ciDlg, edDelete, ciVars, edVars>>

CallConnect == Call(connect(svc))
CallJoinEvent == Call(joinEvent(svc))
CallOn(u) == Call(on(svc, u))
CallOff(u) == Call(off(svc, u))
CallEmit == Call(emit(svc))

\* useSocket.js 9-14: the effect of useSocket connects and joins the event
UseSocketEffect == Call(joinEvent(connect(svc)))

\* socket.js 41-43: connection i is established
ConnEstablished(i) ==
  /\ svc.conns[i].st = "connecting"
  /\ svc' = [svc EXCEPT !.conns[i].st = "connected"]
  /\ UNCHANGED <<srvVars, surfaces, budget, sock, ciDlg, edDelete, ciVars, edVars>>

\* socket.js 33, 45-47: connection i loses its transport and retries
ConnLost(i) ==
  /\ svc.conns[i].st = "connected"
  /\ svc' = [svc EXCEPT !.conns[i].st = "connecting"]
  /\ UNCHANGED <<srvVars, surfaces, budget, sock, ciDlg, edDelete, ciVars, edVars>>

InitService ==
  /\ InitServer
  /\ surfaces = {}
  /\ budget = [commits |-> 0, edits |-> 0, track |-> FALSE]
  /\ NoCI
  /\ EditorsMounted({})
  /\ InitEnv

NextService ==
  \/ CallConnect
  \/ CallJoinEvent
  \/ \E u \in Surfaces : CallOn(u)
  \/ \E u \in Surfaces : CallOff(u)
  \/ CallEmit
  \/ UseSocketEffect
  \/ \E i \in DOMAIN svc.conns : ConnEstablished(i)
  \/ \E i \in DOMAIN svc.conns : ConnLost(i)

SpecService == InitService /\ [][NextService]_vars

\* C28: the socket service has created at most one connection, and every
\* connection that holds handlers or was sent join_event is the service's one
C28_SingleConnection ==
  /\ Len(svc.conns) <= 1
  /\ \A i \in DOMAIN svc.conns :
       (svc.conns[i].handlers # {} \/ svc.conns[i].joinSent) => i = svc.socket

====
